---- MODULE Spec2Model ----
(***************************************************************************)
(* Categorical distributions (m-mueller678/categorical).                   *)
(*                                                                         *)
(* The model covers the Categorical struct of src/src/lib.rs (new,         *)
(* default, from_iter, normalize_in_place, combine_injective,              *)
(* combine_hash, combine_ord) and the three backends CategoricalVec,       *)
(* CategoricalHash and CategoricalOrd (from_iter, iter, probability_of).   *)
(*                                                                         *)
(* The weight type P is generic in the source (NumAssignRef + NumRef).     *)
(* It is instantiated here with exact rationals <<n, d>>, d > 0, kept in   *)
(* lowest terms, whose division by zero panics.                            *)
(*                                                                         *)
(* combine_injective, combine_hash and combine_ord of lib.rs fill local    *)
(* collections (options and probabilities, or the map out) and end without *)
(* a tail expression. CombineInjective, CombineHash and CombineOrd are     *)
(* those collections as the loops leave them.                              *)
(***************************************************************************)
EXTENDS Integers, Sequences, FiniteSets, TLC

\* ------------------------------------------------------------------------
\* Bounds of the model
\* ------------------------------------------------------------------------

\* longest list of categories / weights handed to a constructor, and longest
\* second operand of a combination
MaxLen == 2

\* category values of the distribution under test (type T)
Cats == {1, 2}

\* category values probability_of is asked about: 3 is in no constructed
\* distribution
QueryCats == Cats \cup {3}

\* category values of the second operand of a combination (type U)
OtherCats == {1, 2}

\* ------------------------------------------------------------------------
\* The weight type P: exact rationals
\* ------------------------------------------------------------------------

Abs(x) == IF x < 0 THEN -x ELSE x

RECURSIVE Gcd(_, _)
Gcd(x, y) == IF y = 0 THEN x ELSE Gcd(y, x % y)

\* the rational n/d in lowest terms with a positive denominator (d # 0)
Rat(n, d) ==
    LET g == Gcd(Abs(n), Abs(d))
        s == IF d < 0 THEN -1 ELSE 1
    IN  <<(s * n) \div g, (s * d) \div g>>

\* P::zero()
Zero == <<0, 1>>

\* P::one()
One == <<1, 1>>

\* a + b
Add(p, q) == Rat(p[1] * q[2] + q[1] * p[2], p[2] * q[2])

\* a * b
Mul(p, q) == Rat(p[1] * q[1], p[2] * q[2])

\* the outcome of a call: a value, or a panic
Ok(v) == [panic |-> FALSE, val |-> v]
Panic == [panic |-> TRUE]

\* a / b: panics on a zero divisor
Div(p, q) == IF q[1] = 0 THEN Panic ELSE Ok(Rat(p[1] * q[2], p[2] * q[1]))

\* weights handed to the constructors of the distribution under test: the
\* source does not require a weight to be positive
Weights == {Zero, One, <<-2, 1>>}

\* weights of the second operand of a combination
OtherWeights == {One, <<3, 1>>}

\* ------------------------------------------------------------------------
\* Sequences
\* ------------------------------------------------------------------------

\* all sequences over S of length at most n
SeqsUpTo(S, n) == UNION {[1..k -> S] : k \in 0..n}

\* Iterator::zip: pairs up to the shorter of the two sequences
Zip(s, t) ==
    LET n == IF Len(s) <= Len(t) THEN Len(s) ELSE Len(t)
    IN  [i \in 1..n |-> <<s[i], t[i]>>]

\* Iterator::unzip of a sequence of pairs into two Vecs, pushed in order
RECURSIVE UnzipFrom(_, _, _)
UnzipFrom(pairs, cs, ps) ==
    IF pairs = <<>> THEN <<cs, ps>>
    ELSE UnzipFrom(Tail(pairs), Append(cs, Head(pairs)[1]), Append(ps, Head(pairs)[2]))

Unzip(pairs) == UnzipFrom(pairs, <<>>, <<>>)

\* ------------------------------------------------------------------------
\* struct Categorical (lib.rs)
\* ------------------------------------------------------------------------

\* the value () of the unit type
Unit == 0

NoObject == [kind |-> "none"]

Categorical(cs, ps) == [kind |-> "categorical", categories |-> cs, probabilities |-> ps]

\* default with the weight P::zero() in place of P::one()
BadDefault == Categorical(<<Unit>>, <<Zero>>)

\* impl Default for Categorical<(), P>
Default == Categorical(<<Unit>>, <<One>>)

\* new without its assert_eq!
BadNew(categories, probabilities) == Ok(Categorical(categories, probabilities))

\* Categorical::new: assert_eq! on the two lengths, then the struct
New(categories, probabilities) ==
    IF Len(categories) # Len(probabilities) THEN Panic
    ELSE Ok(Categorical(categories, probabilities))

\* impl FromIterator<(T, P)> for Categorical
FromIter(pairs) ==
    LET u == Unzip(pairs) IN Categorical(u[1], u[2])

\* Categorical::iter and CategoricalVec::iter: categories zipped with probabilities
Iter(c) == Zip(c.categories, c.probabilities)

\* self.probabilities.iter().fold(P::zero(), |a, b| a + b)
RECURSIVE FoldAdd(_, _)
FoldAdd(acc, ps) ==
    IF ps = <<>> THEN acc ELSE FoldAdd(Add(acc, Head(ps)), Tail(ps))

Total(ps) == FoldAdd(Zero, ps)

\* the scaling loop stopping after the first weight
BadScaleAll(ps, r) == [i \in 1..Len(ps) |-> IF i = 1 THEN Mul(ps[i], r) ELSE ps[i]]

\* for p in &mut self.probabilities { *p *= &reciprocal_total }
ScaleAll(ps, r) == [i \in 1..Len(ps) |-> Mul(ps[i], r)]

\* Categorical::normalize_in_place: the reciprocal of the total is computed
\* first (and panics on a zero total), then every weight is multiplied by it
NormalizeInPlace(c) ==
    LET reciprocal_total == Div(One, Total(c.probabilities))
    IN  IF reciprocal_total.panic THEN Panic
        ELSE Ok(Categorical(c.categories, ScaleAll(c.probabilities, reciprocal_total.val)))

\* ------------------------------------------------------------------------
\* Combining functions f(&T, &U) -> O
\* ------------------------------------------------------------------------

Max(x, y) == IF x >= y THEN x ELSE y

\* "pair" is injective, "const" maps every pair to one category, "snd" is
\* (_, b) -> b, "max" and "gt" are the combiners of the dice scenario
Apply(f, a, b) ==
    CASE f = "pair" -> <<a, b>>
      [] f = "const" -> 0
      [] f = "snd" -> b
      [] f = "max" -> Max(a, b)
      [] f = "gt" -> a > b

\* the output category type O of a combiner
KeyType(f) ==
    CASE f = "pair" -> "pair"
      [] f = "gt" -> "bool"
      [] OTHER -> "int"

\* impl Ord for O: integers, bool (false < true) and tuples (lexicographic)
KeyLess(ty, x, y) ==
    CASE ty = "int" -> x < y
      [] ty = "bool" -> (~x) /\ y
      [] ty = "pair" -> (x[1] < y[1]) \/ (x[1] = y[1] /\ x[2] < y[2])

\* ------------------------------------------------------------------------
\* HashMap<K, P> as a function from its keys, BTreeMap<K, P> as the sequence
\* of its <<key, weight>> entries in ascending key order
\* ------------------------------------------------------------------------

EmptyHash == [k \in {} |-> Zero]

EmptyOrd == <<>>

OrdKeys(m) == {m[i][1] : i \in 1..Len(m)}

\* the position of the entry of key k, which m holds
OrdIndex(m, k) == CHOOSE i \in 1..Len(m) : m[i][1] = k

\* the BTreeMap m with the entry <<k, p>> put at its place in key order
OrdInsert(m, k, p, ty) ==
    LET pos == 1 + Cardinality({i \in 1..Len(m) : KeyLess(ty, m[i][1], k)})
    IN  SubSeq(m, 1, pos - 1) \o <<<<k, p>>>> \o SubSeq(m, pos, Len(m))

\* ------------------------------------------------------------------------
\* Combination (lib.rs)
\* ------------------------------------------------------------------------

\* TLC evaluates the arguments of an operator when they are first used, which
\* for an accumulator is at the end of the loop and nests one evaluation per
\* iteration. Evaluated(v) is TRUE for every v; testing it makes TLC evaluate
\* the accumulator after each pass of an outer loop.
Evaluated(v) == v = v

\* the joint weight as a sum
BadJointWeight(pa, pb) == Add(pa, pb)

\* pa.clone() * pb
JointWeight(pa, pb) == Mul(pa, pb)

EmptyDense == [probabilities |-> <<>>, options |-> <<>>, calls |-> <<>>]

\* the inner loop body inserting at the front of the vectors
BadInjectiveStep(acc, a, pa, b, pb, f) ==
    [probabilities |-> <<JointWeight(pa, pb)>> \o acc.probabilities,
     options |-> <<Apply(f, a, b)>> \o acc.options,
     calls |-> <<<<a, b>>>> \o acc.calls]

\* body of the inner loop of combine_injective; calls records the arguments
\* of each invocation of f, in order
InjectiveStep(acc, a, pa, b, pb, f) ==
    [probabilities |-> Append(acc.probabilities, JointWeight(pa, pb)),
     options |-> Append(acc.options, Apply(f, a, b)),
     calls |-> Append(acc.calls, <<a, b>>)]

\* for (b, pb) in other.iter() { ... }
RECURSIVE InjectiveInner(_, _, _, _, _)
InjectiveInner(acc, a, pa, bs, f) ==
    IF bs = <<>> THEN acc
    ELSE InjectiveInner(InjectiveStep(acc, a, pa, Head(bs)[1], Head(bs)[2], f),
                        a, pa, Tail(bs), f)

\* for (a, pa) in self.iter() { ... }
RECURSIVE InjectiveOuter(_, _, _, _)
InjectiveOuter(acc, as, bs, f) ==
    IF as = <<>> THEN acc
    ELSE LET row == InjectiveInner(acc, Head(as)[1], Head(as)[2], bs, f)
         IN  IF Evaluated(row) THEN InjectiveOuter(row, Tail(as), bs, f) ELSE row

\* Categorical::combine_injective: the vectors options and probabilities
\* that the loops fill
CombineInjective(self, other, f) ==
    InjectiveOuter(EmptyDense, Iter(self), Iter(other), f)

\* the Occupied arm of combine_hash replacing the entry instead of adding to it
BadHashStep(out, a, pa, b, pb, f) ==
    LET k == Apply(f, a, b)
        w == JointWeight(pa, pb)
    IN  (k :> w) @@ out

\* body of the inner loop of combine_hash: match out.entry(f(a, b))
HashStep(out, a, pa, b, pb, f) ==
    LET k == Apply(f, a, b)
        w == JointWeight(pa, pb)
    IN  IF k \in DOMAIN out
        THEN [out EXCEPT ![k] = Add(@, w)]
        ELSE (k :> w) @@ out

RECURSIVE HashInner(_, _, _, _, _)
HashInner(out, a, pa, bs, f) ==
    IF bs = <<>> THEN out
    ELSE HashInner(HashStep(out, a, pa, Head(bs)[1], Head(bs)[2], f), a, pa, Tail(bs), f)

RECURSIVE HashOuter(_, _, _, _)
HashOuter(out, as, bs, f) ==
    IF as = <<>> THEN out
    ELSE LET row == HashInner(out, Head(as)[1], Head(as)[2], bs, f)
         IN  IF Evaluated(row) THEN HashOuter(row, Tail(as), bs, f) ELSE row

\* Categorical::combine_hash: the HashMap out that the loops fill
CombineHash(self, other, f) == HashOuter(EmptyHash, Iter(self), Iter(other), f)

\* the Occupied arm of combine_ord replacing the entry instead of adding to it
BadOrdStep(out, a, pa, b, pb, f) ==
    LET k == Apply(f, a, b)
        w == JointWeight(pa, pb)
    IN  IF k \in OrdKeys(out)
        THEN [out EXCEPT ![OrdIndex(out, k)] = <<k, w>>]
        ELSE OrdInsert(out, k, w, KeyType(f))

\* body of the inner loop of combine_ord: match out.entry(f(a, b))
OrdStep(out, a, pa, b, pb, f) ==
    LET k == Apply(f, a, b)
        w == JointWeight(pa, pb)
    IN  IF k \in OrdKeys(out)
        THEN [out EXCEPT ![OrdIndex(out, k)] = <<k, Add(@[2], w)>>]
        ELSE OrdInsert(out, k, w, KeyType(f))

RECURSIVE OrdInner(_, _, _, _, _)
OrdInner(out, a, pa, bs, f) ==
    IF bs = <<>> THEN out
    ELSE OrdInner(OrdStep(out, a, pa, Head(bs)[1], Head(bs)[2], f), a, pa, Tail(bs), f)

RECURSIVE OrdOuter(_, _, _, _)
OrdOuter(out, as, bs, f) ==
    IF as = <<>> THEN out
    ELSE LET row == OrdInner(out, Head(as)[1], Head(as)[2], bs, f)
         IN  IF Evaluated(row) THEN OrdOuter(row, Tail(as), bs, f) ELSE row

\* Categorical::combine_ord: the BTreeMap out that the loops fill
CombineOrd(self, other, f) == OrdOuter(EmptyOrd, Iter(self), Iter(other), f)

\* ------------------------------------------------------------------------
\* CategoricalVec (categorical_vec.rs)
\* ------------------------------------------------------------------------

\* a dense from_iter that keeps the first pair of each category only
BadVecFromIter(pairs) ==
    LET u == Unzip(pairs)
        keep == {i \in 1..Len(pairs) : \A j \in 1..(i - 1) : pairs[j][1] # pairs[i][1]}
        n == Cardinality(keep)
        at(k) == CHOOSE i \in keep : Cardinality({j \in keep : j < i}) = k - 1
    IN  [kind |-> "vec",
         categories |-> [k \in 1..n |-> u[1][at(k)]],
         probabilities |-> [k \in 1..n |-> u[2][at(k)]]]

\* impl FromIterator<(T, P)> for CategoricalVec: unzip, nothing merged
VecFromIter(pairs) ==
    LET u == Unzip(pairs)
    IN  [kind |-> "vec", categories |-> u[1], probabilities |-> u[2]]

\* .filter(|a| a.0 == x).fold(P::zero(), |a, b| a + b.1)
RECURSIVE VecFilterFold(_, _, _)
VecFilterFold(acc, its, x) ==
    IF its = <<>> THEN acc
    ELSE VecFilterFold(IF Head(its)[1] = x THEN Add(acc, Head(its)[2]) ELSE acc,
                       Tail(its), x)

\* CategoricalVec::probability_of
VecProbabilityOf(v, x) == Ok(VecFilterFold(Zero, Iter(v), x))

\* ------------------------------------------------------------------------
\* CategoricalHash (categorical_hash.rs)
\* ------------------------------------------------------------------------

\* the Occupied arm of from_iter leaving the entry as it is
BadHashEntry(out, t, p) ==
    IF t \in DOMAIN out THEN out
    ELSE (t :> p) @@ out

\* match out.entry(t): Vacant inserts p, Occupied adds p to the entry
HashEntry(out, t, p) ==
    IF t \in DOMAIN out
    THEN [out EXCEPT ![t] = Add(@, p)]
    ELSE (t :> p) @@ out

RECURSIVE HashFold(_, _)
HashFold(out, pairs) ==
    IF pairs = <<>> THEN out
    ELSE HashFold(HashEntry(out, Head(pairs)[1], Head(pairs)[2]), Tail(pairs))

\* impl FromIterator<(T, P)> for CategoricalHash
HashFromIter(pairs) == [kind |-> "hash", map |-> HashFold(EmptyHash, pairs)]

\* a lookup that answers zero for a missing key
BadHashProbabilityOf(h, x) ==
    IF x \in DOMAIN h.map THEN Ok(h.map[x]) ELSE Ok(Zero)

\* CategoricalHash::probability_of: self.0[x].clone(), Index panics on a
\* missing key
HashProbabilityOf(h, x) ==
    IF x \in DOMAIN h.map THEN Ok(h.map[x]) ELSE Panic

\* CategoricalHash::iter / into_iter: the entries in an order the HashMap
\* chooses
HashIterOrders(h) ==
    LET keys == DOMAIN h.map
        n == Cardinality(keys)
    IN  {[i \in 1..n |-> <<o[i], h.map[o[i]]>>] :
            o \in {q \in [1..n -> keys] : \A i, j \in 1..n : q[i] = q[j] => i = j}}

\* ------------------------------------------------------------------------
\* CategoricalOrd (categorical_ord.rs)
\* ------------------------------------------------------------------------

\* match out.entry(t): Vacant inserts p, Occupied adds p to the entry
OrdEntry(out, t, p, ty) ==
    IF t \in OrdKeys(out)
    THEN [out EXCEPT ![OrdIndex(out, t)] = <<t, Add(@[2], p)>>]
    ELSE OrdInsert(out, t, p, ty)

RECURSIVE OrdFold(_, _, _)
OrdFold(out, pairs, ty) ==
    IF pairs = <<>> THEN out
    ELSE OrdFold(OrdEntry(out, Head(pairs)[1], Head(pairs)[2], ty), Tail(pairs), ty)

\* impl FromIterator<(T, P)> for CategoricalOrd
OrdFromIter(pairs, ty) == [kind |-> "ord", map |-> OrdFold(EmptyOrd, pairs, ty)]

\* CategoricalOrd::probability_of: self.0[x].clone(), Index panics on a
\* missing key
OrdProbabilityOf(o, x) ==
    IF x \in OrdKeys(o.map)
    THEN Ok(o.map[OrdIndex(o.map, x)][2])
    ELSE Panic

\* CategoricalOrd::iter / into_iter: the entries in ascending key order
OrdIter(o) == o.map

\* ------------------------------------------------------------------------
\* State: a caller that holds two lists, builds one distribution from them
\* and calls its operations
\* ------------------------------------------------------------------------

VARIABLES
    categories,     \* the caller's list of categories
    probabilities,  \* the caller's list of weights
    obj,            \* the distribution built from them (NoObject before)
    normalized,     \* obj is the result of a normalize_in_place
    last            \* the last call: its name, arguments and outcome

vars == <<categories, probabilities, obj, normalized, last>>

\* the pairs the caller hands to from_iter, when the two lists pair up
Pairs == Zip(categories, probabilities)

HasPairs == Len(categories) = Len(probabilities)

\* the second operands of a combination
Others ==
    {Categorical(Unzip(ps)[1], Unzip(ps)[2]) : ps \in SeqsUpTo(OtherCats \X OtherWeights, MaxLen)}

\* the combining functions of the general specification
Combiners == {"pair", "const", "snd"}

CombineOps == {"combine_injective", "combine_hash", "combine_ord"}

\* The outcome of a call depends on obj and on the arguments only, and a
\* combination or a lookup leaves obj as it is, so a call that follows one
\* reaches no state that the same call before it does not reach; Fresh keeps
\* such repeats out of the search.
Fresh == last.op \notin (CombineOps \cup
            {"vec_probability_of", "hash_probability_of", "ord_probability_of"})

Init ==
    /\ categories \in SeqsUpTo(Cats, MaxLen)
    /\ probabilities \in SeqsUpTo(Weights, MaxLen)
    /\ obj = NoObject
    /\ normalized = FALSE
    /\ last = [op |-> "none"]

\* Categorical::new(categories, probabilities)
DoNew ==
    /\ obj = NoObject
    /\ last.op = "none"
    /\ LET r == New(categories, probabilities)
       IN  /\ obj' = IF r.panic THEN obj ELSE r.val
           /\ last' = [op |-> "new", panic |-> r.panic]
    /\ UNCHANGED <<categories, probabilities, normalized>>

\* Categorical::default(): it takes no argument, so it is called from the
\* state whose lists are empty only
DoDefault ==
    /\ obj = NoObject
    /\ categories = <<>> /\ probabilities = <<>>
    /\ last.op = "none"
    /\ obj' = Default
    /\ last' = [op |-> "default"]
    /\ UNCHANGED <<categories, probabilities, normalized>>

\* CategoricalVec::from_iter(pairs)
DoVecFromIter ==
    /\ obj = NoObject
    /\ HasPairs
    /\ last.op = "none"
    /\ obj' = VecFromIter(Pairs)
    /\ last' = [op |-> "vec_from_iter"]
    /\ UNCHANGED <<categories, probabilities, normalized>>

\* CategoricalHash::from_iter(pairs)
DoHashFromIter ==
    /\ obj = NoObject
    /\ HasPairs
    /\ last.op = "none"
    /\ obj' = HashFromIter(Pairs)
    /\ last' = [op |-> "hash_from_iter"]
    /\ UNCHANGED <<categories, probabilities, normalized>>

\* CategoricalOrd::from_iter(pairs)
DoOrdFromIter ==
    /\ obj = NoObject
    /\ HasPairs
    /\ last.op = "none"
    /\ obj' = OrdFromIter(Pairs, "int")
    /\ last' = [op |-> "ord_from_iter"]
    /\ UNCHANGED <<categories, probabilities, normalized>>

\* obj.normalize_in_place(): a panic leaves obj as it was
DoNormalize ==
    /\ obj.kind = "categorical"
    /\ Fresh
    /\ LET r == NormalizeInPlace(obj)
       IN  /\ obj' = IF r.panic THEN obj ELSE r.val
           /\ normalized' = IF r.panic THEN normalized ELSE TRUE
           /\ last' = [op |-> "normalize", panic |-> r.panic, before |-> obj,
                        again |-> normalized]
    /\ UNCHANGED <<categories, probabilities>>

\* obj.combine_injective(&other, f)
DoCombineInjective ==
    /\ obj.kind = "categorical"
    /\ Fresh
    /\ \E other \in Others, f \in Combiners :
           last' = [op |-> "combine_injective", other |-> other, f |-> f,
                    out |-> CombineInjective(obj, other, f)]
    /\ UNCHANGED <<categories, probabilities, obj, normalized>>

\* obj.combine_hash(&other, f)
DoCombineHash ==
    /\ obj.kind = "categorical"
    /\ Fresh
    /\ \E other \in Others, f \in Combiners :
           last' = [op |-> "combine_hash", other |-> other, f |-> f,
                    out |-> CombineHash(obj, other, f)]
    /\ UNCHANGED <<categories, probabilities, obj, normalized>>

\* obj.combine_ord(&other, f)
DoCombineOrd ==
    /\ obj.kind = "categorical"
    /\ Fresh
    /\ \E other \in Others, f \in Combiners :
           last' = [op |-> "combine_ord", other |-> other, f |-> f,
                    out |-> CombineOrd(obj, other, f)]
    /\ UNCHANGED <<categories, probabilities, obj, normalized>>

\* obj.probability_of(&x) on a CategoricalVec
DoVecProbabilityOf ==
    /\ obj.kind = "vec"
    /\ Fresh
    /\ \E x \in QueryCats :
           last' = [op |-> "vec_probability_of", x |-> x, ret |-> VecProbabilityOf(obj, x)]
    /\ UNCHANGED <<categories, probabilities, obj, normalized>>

\* obj.probability_of(&x) on a CategoricalHash
DoHashProbabilityOf ==
    /\ obj.kind = "hash"
    /\ Fresh
    /\ \E x \in QueryCats :
           last' = [op |-> "hash_probability_of", x |-> x, ret |-> HashProbabilityOf(obj, x)]
    /\ UNCHANGED <<categories, probabilities, obj, normalized>>

\* obj.probability_of(&x) on a CategoricalOrd
DoOrdProbabilityOf ==
    /\ obj.kind = "ord"
    /\ Fresh
    /\ \E x \in QueryCats :
           last' = [op |-> "ord_probability_of", x |-> x, ret |-> OrdProbabilityOf(obj, x)]
    /\ UNCHANGED <<categories, probabilities, obj, normalized>>

Next ==
    \/ DoNew
    \/ DoDefault
    \/ DoVecFromIter
    \/ DoHashFromIter
    \/ DoOrdFromIter
    \/ DoNormalize
    \/ DoCombineInjective
    \/ DoCombineHash
    \/ DoCombineOrd
    \/ DoVecProbabilityOf
    \/ DoHashProbabilityOf
    \/ DoOrdProbabilityOf

Spec == Init /\ [][Next]_vars

\* ------------------------------------------------------------------------
\* The dice scenario: a fair die D, M = D combined with D via max, then M
\* combined with D via (m, d) -> m > d, each time under a merging backend
\* ------------------------------------------------------------------------

DieFaces == 1..6

\* the caller holds the six faces, each with weight one, and has built the
\* distribution with new; normalize_in_place makes it the fair die
InitDie ==
    /\ categories = [i \in DieFaces |-> i]
    /\ probabilities = [i \in DieFaces |-> One]
    /\ obj = New(categories, probabilities).val
    /\ normalized = FALSE
    /\ last = [op |-> "new", panic |-> FALSE]

DieNormalize ==
    /\ last.op = "new"
    /\ DoNormalize

\* die.combine_hash(&die, max)
DieMaxHash ==
    /\ last.op = "normalize"
    /\ last' = [op |-> "combine_hash", other |-> obj, f |-> "max",
                 out |-> CombineHash(obj, obj, "max")]
    /\ UNCHANGED <<categories, probabilities, obj, normalized>>

\* die.combine_ord(&die, max)
DieMaxOrd ==
    /\ last.op = "normalize"
    /\ last' = [op |-> "combine_ord", other |-> obj, f |-> "max",
                 out |-> CombineOrd(obj, obj, "max")]
    /\ UNCHANGED <<categories, probabilities, obj, normalized>>

\* the HashMap of M, iterated in some order, collected into a Categorical
\* (the die stays at hand as last.other)
DieCollectHash ==
    /\ last.op = "combine_hash" /\ last.f = "max"
    /\ \E its \in HashIterOrders([map |-> last.out]) : obj' = FromIter(its)
    /\ last' = [op |-> "from_iter", other |-> last.other]
    /\ UNCHANGED <<categories, probabilities, normalized>>

\* the BTreeMap of M, iterated in key order, collected into a Categorical
DieCollectOrd ==
    /\ last.op = "combine_ord" /\ last.f = "max"
    /\ obj' = FromIter(OrdIter([map |-> last.out]))
    /\ last' = [op |-> "from_iter", other |-> last.other]
    /\ UNCHANGED <<categories, probabilities, normalized>>

\* m.combine_hash(&die, |m, d| m > d)
DieGtHash ==
    /\ last.op = "from_iter"
    /\ last' = [op |-> "combine_hash", other |-> last.other, f |-> "gt",
                 out |-> CombineHash(obj, last.other, "gt")]
    /\ UNCHANGED <<categories, probabilities, obj, normalized>>

\* m.combine_ord(&die, |m, d| m > d)
DieGtOrd ==
    /\ last.op = "from_iter"
    /\ last' = [op |-> "combine_ord", other |-> last.other, f |-> "gt",
                 out |-> CombineOrd(obj, last.other, "gt")]
    /\ UNCHANGED <<categories, probabilities, obj, normalized>>

NextDie ==
    \/ DieNormalize
    \/ DieMaxHash
    \/ DieMaxOrd
    \/ DieCollectHash
    \/ DieCollectOrd
    \/ DieGtHash
    \/ DieGtOrd

SpecDie == InitDie /\ [][NextDie]_vars

\* ------------------------------------------------------------------------
\* Vocabulary of the properties
\* ------------------------------------------------------------------------

NoRepeat(s) == \A i, j \in 1..Len(s) : s[i] = s[j] => i = j

CatSet(s) == {s[i] : i \in 1..Len(s)}

\* the sum of the weights that the first n pairs give for category c
RECURSIVE WeightSum(_, _, _)
WeightSum(pairs, c, n) ==
    IF n = 0 THEN Zero
    ELSE Add(WeightSum(pairs, c, n - 1), IF pairs[n][1] = c THEN pairs[n][2] ELSE Zero)

WeightFor(pairs, c) == WeightSum(pairs, c, Len(pairs))

\* the output of combine_injective seen as a dense distribution
AsVec(out) == [kind |-> "vec", categories |-> out.options, probabilities |-> out.probabilities]

\* the two operands of the last combination are obj and last.other
LenA == Len(obj.categories)
LenB == Len(last.other.categories)

\* ------------------------------------------------------------------------
\* C1
\* ------------------------------------------------------------------------

\* probability_of(f(a, b)) on the dense output is weight(a) * weight(b) for
\* every entry a of A and b of B
C1_PairWeights ==
    \A i \in 1..LenA, j \in 1..LenB :
        VecProbabilityOf(AsVec(last.out),
                         Apply(last.f, obj.categories[i], last.other.categories[j]))
            = Ok(Mul(obj.probabilities[i], last.other.probabilities[j]))

C1_Size ==
    /\ Len(last.out.options) = LenA * LenB
    /\ Len(last.out.probabilities) = LenA * LenB

C2_OneEntry ==
    LET w == Mul(Total(obj.probabilities), Total(last.other.probabilities))
    IN  /\ last.op = "combine_hash" =>
              /\ Cardinality(DOMAIN last.out) = 1
              /\ \A k \in DOMAIN last.out : last.out[k] = w
        /\ last.op = "combine_ord" =>
              /\ Len(last.out) = 1
              /\ \A i \in 1..Len(last.out) : last.out[i][2] = w

C3_ProbabilityOfTrue ==
    IF last.op = "combine_hash"
    THEN HashProbabilityOf([kind |-> "hash", map |-> last.out], TRUE)
    ELSE OrdProbabilityOf([kind |-> "ord", map |-> last.out], TRUE)

C3_ProbabilityOfFalse ==
    IF last.op = "combine_hash"
    THEN HashProbabilityOf([kind |-> "hash", map |-> last.out], FALSE)
    ELSE OrdProbabilityOf([kind |-> "ord", map |-> last.out], FALSE)

C4_MergedFromPairs ==
    /\ obj.kind = "hash" =>
          /\ DOMAIN obj.map = CatSet(categories)
          /\ \A c \in CatSet(categories) :
                 HashProbabilityOf(obj, c) = Ok(WeightFor(Pairs, c))
          /\ \A c \in QueryCats :
                 HashProbabilityOf(obj, c) = OrdProbabilityOf(OrdFromIter(Pairs, "int"), c)
    /\ obj.kind = "ord" =>
          /\ OrdKeys(obj.map) = CatSet(categories)
          /\ Len(obj.map) = Cardinality(CatSet(categories))
          /\ \A c \in CatSet(categories) :
                 OrdProbabilityOf(obj, c) = Ok(WeightFor(Pairs, c))
          /\ \A c \in QueryCats :
                 OrdProbabilityOf(obj, c) = HashProbabilityOf(HashFromIter(Pairs), c)
    /\ (last.op \in {"hash_probability_of", "ord_probability_of"}
            /\ last.x \in CatSet(categories)) =>
          last.ret = Ok(WeightFor(Pairs, last.x))

C4_Witness ==
    /\ last.op = "hash_probability_of"
    /\ categories = <<1, 1>>
    /\ probabilities = <<One, <<-2, 1>>>>
    /\ last.x = 1
    /\ last.ret = Ok(<<-1, 1>>)

\* ------------------------------------------------------------------------
\* C5
\* ------------------------------------------------------------------------

\* C5: normalize_in_place on weights of non-zero total makes the total one and
\* every weight its old value divided by the old total, keeps the ratios and
\* the categories, and changes nothing when applied a second time
C5_Normalize ==
    (last.op = "normalize" /\ Total(last.before.probabilities) # Zero) =>
        LET old == last.before.probabilities
            new == obj.probabilities
        IN  /\ ~last.panic
            /\ Total(new) = One
            /\ Len(new) = Len(old)
            /\ \A i \in 1..Len(old) : Ok(new[i]) = Div(old[i], Total(old))
            /\ \A i, j \in 1..Len(old) : Mul(new[i], old[j]) = Mul(new[j], old[i])
            /\ obj.categories = last.before.categories
            /\ last.again => new = old

C5_Witness ==
    /\ last.op = "normalize" /\ ~last.panic /\ last.again
    /\ categories = <<2, 1>>
    /\ probabilities = <<One, <<-2, 1>>>>
    /\ obj.probabilities = <<<<-1, 1>>, <<2, 1>>>>

\* ------------------------------------------------------------------------
\* C6
\* ------------------------------------------------------------------------

C8_Dense ==
    /\ obj.kind = "vec" =>
          /\ obj.categories = categories
          /\ obj.probabilities = probabilities
          /\ Iter(obj) = Pairs
    /\ last.op = "vec_probability_of" =>
          /\ ~last.ret.panic
          /\ last.ret.val = WeightFor(Pairs, last.x)
          /\ last.x \notin CatSet(categories) => last.ret.val = Zero

C8_Witness ==
    /\ last.op = "vec_probability_of"
    /\ obj.categories = <<2, 2>>
    /\ obj.probabilities = <<<<-2, 1>>, One>>
    /\ last.x = 2
    /\ last.ret = Ok(<<-1, 1>>)

\* ------------------------------------------------------------------------
\* C9
\* ------------------------------------------------------------------------

\* C9: on the hash and order backends probability_of(x) panics when x is not
\* in the distribution, and otherwise returns the stored weight of x; the
\* distribution is as it was built
C9_Lookup ==
    /\ last.op = "hash_probability_of" =>
          /\ obj = HashFromIter(Pairs)
          /\ last.x \notin CatSet(categories) => last.ret.panic
          /\ last.x \in CatSet(categories) =>
                 (~last.ret.panic /\ last.ret.val = obj.map[last.x])
    /\ last.op = "ord_probability_of" =>
          /\ obj = OrdFromIter(Pairs, "int")
          /\ last.x \notin CatSet(categories) => last.ret.panic
          /\ last.x \in CatSet(categories) =>
                 /\ ~last.ret.panic
                 /\ \E i \in 1..Len(obj.map) : obj.map[i] = <<last.x, last.ret.val>>

C9_Witness ==
    /\ last.op = "hash_probability_of"
    /\ categories = <<1, 1>>
    /\ last.x = 2
    /\ last.ret.panic

\* ------------------------------------------------------------------------
\* C10
\* ------------------------------------------------------------------------

\* C10: new panics, and builds nothing, when the two lists differ in length;
\* otherwise the i-th entry is (categories[i], probabilities[i]); every dense
\* distribution has as many categories as weights
C10_New ==
    /\ last.op = "new" =>
          IF Len(categories) # Len(probabilities)
          THEN last.panic /\ obj = NoObject
          ELSE /\ ~last.panic
               /\ obj.kind = "categorical"
               /\ Len(obj.categories) = Len(categories)
               /\ \A i \in 1..Len(categories) :
                      Iter(obj)[i] = <<categories[i], probabilities[i]>>
    /\ obj.kind \in {"categorical", "vec"} =>
          Len(obj.categories) = Len(obj.probabilities)

C10_Witness ==
    /\ last.op = "new"
    /\ Len(categories) = 2 /\ Len(probabilities) = 1
    /\ last.panic
    /\ obj = NoObject

====
